---------------------------- MODULE Spec2Model ----------------------------
(***************************************************************************)
(* A model of jorup, the version and channel manager of the jormungandr    *)
(* node.                                                                   *)
(*                                                                         *)
(*   - the node release manager (src/src/commands/node.rs, src/src/main.rs)*)
(*     install / list / remove over the release directory and a remote     *)
(*     release feed;                                                       *)
(*   - the settings document and the channel workspace of the jorup binary *)
(*     (src/jorup/src/common.rs, src/jorup/src/utils/channel.rs).          *)
(*                                                                         *)
(* Optional values are sets with at most one element: None is {} and       *)
(* Some(x) is {x}.  A string of the program is a sequence of tokens.       *)
(***************************************************************************)
EXTENDS Integers, Sequences, FiniteSets, TLC

VARIABLES
    \* ---- node release manager: the disk, the remote feed, the running command
    releases,      \* the versions with a directory under release/
    assets,        \* the versions whose asset file is present and complete
    partial,       \* the versions whose asset file is present but incomplete
    opened,        \* the versions whose asset has been unpacked
    dflt,          \* the version made default (optional)
    feed,          \* the versions the remote release feed offers
    call,          \* the command the process ran: inputs, error chain, network calls
    \* ---- jorup: settings document, channel index, channel workspaces
    settingsFile,  \* content of settings.toml (optional document)
    cfg,           \* the JorupConfig of the running process (optional)
    lastSet,       \* the channel of the last successful set_default_channel (optional)
    jor,           \* the channel index (jorfile): channel -> genesis block hash
    ws,            \* per workspace path: absent, a directory, or its genesis file
    channel,       \* the utils::channel::Channel the process holds (optional)
    res            \* the last jorup operation and its error

nodeVars == <<releases, assets, partial, opened, dflt, feed, call>>
jorupVars == <<settingsFile, cfg, lastSet, jor, ws, channel, res>>
vars == <<releases, assets, partial, opened, dflt, feed, call,
          settingsFile, cfg, lastSet, jor, ws, channel, res>>

None == {}
Some(x) == {x}
The(o) == CHOOSE x \in o : TRUE

---------------------------------------------------------------------------
(* Bounds *)

\* how many versions exist: 1.0.0, 1.2.0, 2.0.0, 2.2.0, ...
NumVersions == 3

---------------------------------------------------------------------------
(* Version and VersionReq *)

Versions == {<<1 + (i \div 2), 2 * (i % 2), 0>> : i \in 0..(NumVersions - 1)}

VersionLess(a, b) ==
    \/ a[1] < b[1]
    \/ a[1] = b[1] /\ a[2] < b[2]
    \/ a[1] = b[1] /\ a[2] = b[2] /\ a[3] < b[3]

MaxVersion(S) == CHOOSE v \in S : \A w \in S : w = v \/ VersionLess(w, v)

Latest == [kind |-> "Latest", v |-> <<0, 0, 0>>]
Exact(v) == [kind |-> "Exact", v |-> v]
AtLeast(v) == [kind |-> "AtLeast", v |-> v]

Matches(req, v) ==
    CASE req.kind = "Latest" -> TRUE
      [] req.kind = "Exact" -> v = req.v
      [] req.kind = "AtLeast" -> ~VersionLess(v, req.v)

\* the best of the candidates a requirement admits: the maximum of those matching
BestMatch(candidates, req) ==
    LET ok == {v \in candidates : Matches(req, v)}
    IN  IF ok = {} THEN None ELSE Some(MaxVersion(ok))

---------------------------------------------------------------------------
(* The collaborators of install and remove *)

BlockchainNames == {"mainnet", "unknown"}

\* Blockchain::load(cfg, name)?.jormungandr_version_req(): the requirement the
\* channel index binds to the blockchain, when the index loads and names it
BlockchainLoad(name, fail) ==
    IF fail = "blockchain" \/ name # "mainnet" THEN None
    ELSE Some(AtLeast(<<1, 2, 0>>))

\* github::find_matching_release(client, req)
FindMatchingRelease(req, fail) ==
    IF fail = "feed" THEN None ELSE BestMatch(feed, req)

\* Release::load(cfg, req): the installed release the requirement selects, or
\* NoCompatibleReleaseInstalled
ReleaseLoad(installed, req) == BestMatch(installed, req)

---------------------------------------------------------------------------
(* install: the state a run of the command carries *)

\* did: what the run touched outside the process, in NetCalls or LocalCalls
NetCalls == {"client", "feed", "asset", "download"}
LocalCalls == {"index", "remove_dir_all"}

Begin ==
    [chain |-> <<>>, did |-> {}, req |-> None, release |-> None,
     releases |-> releases, assets |-> assets, partial |-> partial,
     opened |-> opened, dflt |-> dflt]

Fail(st, errs) == [st EXCEPT !.chain = errs]

\* a variant that never sees the offline flag
OfflineMut(offline) == FALSE
Offline(offline) == offline

\* a variant that accepts a version together with a blockchain
ConflictingRequestMut(version, blockchain) == FALSE
ConflictingRequest(version, blockchain) == version # None /\ blockchain # None

\* a variant that never asks the feed for the latest release
LoadLatestMut(version, blockchain) == FALSE
LoadLatest(version, blockchain) == version = None /\ blockchain = None

\* the requirement of the request, or the error of Blockchain::load
VersionReqOf(st, version, blockchain, fail) ==
    IF version = None
    THEN IF blockchain = None
         THEN [st EXCEPT !.req = Some(Latest)]
         ELSE LET b == BlockchainLoad(The(blockchain), fail)
              IN  IF b = None
                  THEN [st EXCEPT
                          !.chain = <<"NoValidBlockchain", "blockchain::Error">>,
                          !.did = @ \cup {"index"}]
                  ELSE [st EXCEPT !.req = b, !.did = @ \cup {"index"}]
    ELSE [st EXCEPT !.req = Some(Exact(The(version)))]

ClientNew(st, fail) ==
    IF st.chain # <<>> THEN st
    ELSE IF fail = "client"
         THEN [st EXCEPT !.chain = <<"DownloaderCreate", "download::Error">>,
                         !.did = @ \cup {"client"}]
         ELSE [st EXCEPT !.did = @ \cup {"client"}]

\* Release::new(cfg, version): create_dir_all of release/<version>
ReleaseNew(st, v, fail) ==
    IF fail = "new"
    THEN Fail(st, <<"ReleaseLoad", "io::Error">>)
    ELSE [st EXCEPT !.release = Some(v), !.releases = @ \cup {v}]

\* find_matching_release, then Release::new of the version found
FetchRelease(st, req, fail) ==
    LET gh == FindMatchingRelease(req, fail)
        asked == [st EXCEPT !.did = @ \cup {"feed"}]
    IN  IF gh = None
        THEN Fail(asked, <<"GitHub", "github::Error">>)
        ELSE ReleaseNew(asked, The(gh), fail)

\* a variant that resolves every request through the feed
ResolveReleaseMut(st, load_latest, req, fail) ==
    IF st.chain # <<>> THEN st ELSE FetchRelease(st, req, fail)
ResolveRelease(st, load_latest, req, fail) ==
    IF st.chain # <<>> THEN st
    ELSE IF load_latest
         THEN FetchRelease(st, req, fail)
         ELSE LET local == ReleaseLoad(st.releases, req)
              IN  IF local # None
                  THEN [st EXCEPT !.release = local]
                  ELSE FetchRelease(st, req, fail)

AssetRemote(st, fail) ==
    IF st.chain # <<>> THEN st
    ELSE IF fail = "asset"
         THEN [st EXCEPT !.chain = <<"ReleaseLoad", "github::Error">>,
                         !.did = @ \cup {"asset"}]
         ELSE [st EXCEPT !.did = @ \cup {"asset"}]

\* release.asset_need_fetched(): no file at the asset's path
AssetNeedFetched(st) == The(st.release) \notin (st.assets \cup st.partial)

\* client.download_file(..) writes the file at the asset's path; a failed
\* download leaves no file there, or an incomplete one when the write is cut
\* (the download error then has the I/O error for its source)
DownloadFile(st, fail) ==
    CASE fail = "download" ->
           [st EXCEPT !.chain = <<"CannotUpdate", "download::Error">>,
                      !.did = @ \cup {"download"},
                      !.assets = @ \ st.release,
                      !.partial = @ \ st.release]
      [] fail = "download_partial" ->
           [st EXCEPT !.chain = <<"CannotUpdate", "download::Error", "io::Error">>,
                      !.did = @ \cup {"download"},
                      !.assets = @ \ st.release,
                      !.partial = @ \cup st.release]
      [] OTHER ->
           [st EXCEPT !.did = @ \cup {"download"},
                      !.assets = @ \cup st.release,
                      !.partial = @ \ st.release]

\* a variant that downloads the asset whether or not it is there
DownloadMut(st, fail) ==
    IF st.chain # <<>> THEN st ELSE DownloadFile(st, fail)
Download(st, fail) ==
    IF st.chain # <<>> THEN st
    ELSE IF AssetNeedFetched(st) THEN DownloadFile(st, fail) ELSE st

\* release.asset_open(): unpack the asset beside it, unless already unpacked;
\* an incomplete asset does not unpack
AssetOpen(st, fail) ==
    IF st.chain # <<>> THEN st
    ELSE IF The(st.release) \in st.opened THEN st
    ELSE IF fail = "open" \/ The(st.release) \in st.partial
         THEN Fail(st, <<"ReleaseLoad", "io::Error">>)
         ELSE [st EXCEPT !.opened = @ \cup st.release]

\* release.make_default(cfg)
MakeDefault(st, make_default, fail) ==
    IF st.chain # <<>> \/ ~make_default THEN st
    ELSE IF fail = "default"
         THEN Fail(st, <<"ReleaseLoad", "io::Error">>)
         ELSE [st EXCEPT !.dflt = st.release]

Install(offline, version, blockchain, make_default, fail) ==
    IF Offline(offline) THEN Fail(Begin, <<"Offline">>)
    ELSE IF ConflictingRequest(version, blockchain)
    THEN Fail(Begin, <<"MustNotSpecifyBlockchainAndVersion">>)
    ELSE LET load_latest == LoadLatest(version, blockchain)
             vr == VersionReqOf(Begin, version, blockchain, fail)
         IN  IF vr.chain # <<>> THEN vr
             ELSE MakeDefault(
                    AssetOpen(
                      Download(
                        AssetRemote(
                          ResolveRelease(ClientNew(vr, fail),
                                         load_latest, The(vr.req), fail),
                          fail),
                        fail),
                      fail),
                    make_default, fail)

---------------------------------------------------------------------------
(* remove and list *)

\* a variant that removes whatever is installed, not the exact version
RemoveReqMut(version) == Latest
RemoveReq(version) == Exact(version)

\* a variant that deletes the release root, not the directory of the release
RemoveDirAllMut(st, v, fail) ==
    [st EXCEPT !.did = @ \cup {"remove_dir_all"},
               !.releases = {}, !.assets = {}, !.partial = {}, !.opened = {}]
\* std::fs::remove_dir_all(release.dir()): the whole subtree goes; a failure
\* leaves the directory, with or without what was in it
RemoveDirAll(st, v, fail) ==
    CASE fail = "none" ->
           [st EXCEPT !.did = @ \cup {"remove_dir_all"},
                      !.releases = @ \ {v}, !.assets = @ \ {v},
                      !.partial = @ \ {v}, !.opened = @ \ {v}]
      [] fail = "remove_dir" ->
           [st EXCEPT !.did = @ \cup {"remove_dir_all"},
                      !.chain = <<"RemoveRelease", "io::Error">>]
      [] fail = "remove_dir_partial" ->
           [st EXCEPT !.did = @ \cup {"remove_dir_all"},
                      !.chain = <<"RemoveRelease", "io::Error">>,
                      !.assets = @ \ {v}, !.partial = @ \ {v},
                      !.opened = @ \ {v}]

Remove(version, fail) ==
    LET release == ReleaseLoad(releases, RemoveReq(version))
    IN  IF release = None
        THEN Fail(Begin, <<"ReleaseLoad", "NoCompatibleReleaseInstalled">>)
        ELSE RemoveDirAll([Begin EXCEPT !.release = release], The(release), fail)

\* list_installed_releases(cfg), printed
List(fail) ==
    IF fail = "list" THEN Fail(Begin, <<"ReleasesList", "io::Error">>) ELSE Begin

---------------------------------------------------------------------------
(* The node release manager as a state machine *)

InstallFails == {"none", "blockchain", "client", "feed", "new", "asset",
                 "download", "download_partial", "open", "default"}
RemoveFails == {"none", "remove_dir", "remove_dir_partial"}
ListFails == {"none", "list"}

\* run(app) of main.rs on the result of app.run(): an error is its Display
\* text followed by its sources, error.source() of <<e1, e2, ..>> being
\* <<e2, ..>>; a line of standard error is a sequence of tokens

\* a variant that prints the sources innermost first
SourcesMut(source) ==
    [i \in 1..Len(source) |-> <<" |-> ", source[Len(source) + 1 - i]>>]
\* while let Some(err) = source { eprintln!(" |-> {}", err); source = err.source() }
RECURSIVE Sources(_)
Sources(source) ==
    IF source = <<>> THEN <<>>
    ELSE <<<<" |-> ", Head(source)>>>> \o Sources(Tail(source))

\* what run prints to standard error
Report(chain) ==
    IF chain = <<>> THEN <<>>
    ELSE <<<<Head(chain)>>>> \o Sources(Tail(chain))

\* the exit status: std::process::exit(1) on an error, else main returns
ExitStatus(chain) == IF chain = <<>> THEN 0 ELSE 1

NoCall ==
    [op |-> "none", offline |-> FALSE, version |-> None, blockchain |-> None,
     make_default |-> FALSE, faults |-> FALSE, chain |-> <<>>, did |-> {},
     release |-> None, stderr |-> <<>>, status |-> 0]

\* faults: whether a collaborator of the command was set to fail in this run
Commit(op, offline, version, blockchain, make_default, fail, st) ==
    /\ call' = [op |-> op, offline |-> offline, version |-> version,
                blockchain |-> blockchain, make_default |-> make_default,
                faults |-> fail # "none",
                chain |-> st.chain, did |-> st.did, release |-> st.release,
                stderr |-> Report(st.chain), status |-> ExitStatus(st.chain)]
    /\ releases' = st.releases
    /\ assets' = st.assets
    /\ partial' = st.partial
    /\ opened' = st.opened
    /\ dflt' = st.dflt
    /\ UNCHANGED <<feed, jorupVars>>

RunInstall ==
    /\ call.op = "none"
    /\ \E offline \in BOOLEAN, make_default \in BOOLEAN, fail \in InstallFails,
          version \in {None} \cup {Some(v) : v \in Versions},
          blockchain \in {None} \cup {Some(b) : b \in BlockchainNames} :
          Commit("install", offline, version, blockchain, make_default, fail,
                 Install(offline, version, blockchain, make_default, fail))

RunRemove ==
    /\ call.op = "none"
    /\ \E version \in Versions, fail \in RemoveFails :
          Commit("remove", FALSE, Some(version), None, FALSE, fail,
                 Remove(version, fail))

RunList ==
    /\ call.op = "none"
    /\ \E fail \in ListFails :
          Commit("list", FALSE, None, None, FALSE, fail, List(fail))

\* the process ends; the next command is a new process
Exit ==
    /\ call.op # "none"
    /\ call' = NoCall
    /\ UNCHANGED <<releases, assets, partial, opened, dflt, feed, jorupVars>>

---------------------------------------------------------------------------
(* jorup: channels and their string form *)

\* how many entries the channel index holds at most
MaxEntries == 2
\* genesis block hashes are 1..MaxHash
MaxHash == 2

NameList == <<"mainnet", "nightly">>
DateList == <<"2021-01-01", "2021-02-01">>
Names == {NameList[i] : i \in 1..Len(NameList)}
Dates == {DateList[i] : i \in 1..Len(DateList)}
Hashes == 1..MaxHash

\* jorup_lib::Channel: a named channel at a date
LibChannels == [channel : Names, date : Dates]
LibIsNightly(ch) == ch.channel = "nightly"
LibChannelToString(ch) == <<ch.channel, ch.date>>
LibChannelFromStr(s) ==
    IF Len(s) = 2 /\ s[1] \in Names /\ s[2] \in Dates
    THEN Some([channel |-> s[1], date |-> s[2]])
    ELSE None

RankIn(list, x) == CHOOSE i \in 1..Len(list) : list[i] = x
\* the order of the channel index's keys
ChannelBefore(a, b) ==
    \/ RankIn(NameList, a.channel) < RankIn(NameList, b.channel)
    \/ /\ a.channel = b.channel
       /\ RankIn(DateList, a.date) < RankIn(DateList, b.date)

\* common::Channel
Stable == [kind |-> "Stable", channel |-> None]
Nightly == [kind |-> "Nightly", channel |-> None]
Specific(ch) == [kind |-> "Specific", channel |-> Some(ch)]
Channels == {Stable, Nightly} \cup {Specific(ch) : ch \in LibChannels}

\* a variant that takes only the Nightly channel for nightly
IsNightlyMut(c) == c.kind = "Nightly"
IsNightly(c) ==
    CASE c.kind = "Nightly" -> TRUE
      [] c.kind = "Stable" -> FALSE
      [] c.kind = "Specific" -> LibIsNightly(The(c.channel))

ChannelToString(c) ==
    CASE c.kind = "Stable" -> <<"stable">>
      [] c.kind = "Nightly" -> <<"nightly">>
      [] c.kind = "Specific" -> LibChannelToString(The(c.channel))

ChannelFromStr(s) ==
    IF s = <<"stable">> THEN Some(Stable)
    ELSE IF s = <<"nightly">> THEN Some(Nightly)
    ELSE LET ch == LibChannelFromStr(s)
         IN  IF ch = None THEN None ELSE Some(Specific(The(ch)))

---------------------------------------------------------------------------
(* jorup: the settings document *)

\* JorupSettings; JorupSettings::default()
Settings(c) == [default |-> c]
DefaultSettings == Settings(Stable)

\* toml::to_vec(&settings): the one field, default, as the channel's string
SettingsToToml(settings) == << <<"default", ChannelToString(settings.default)>> >>

\* toml::from_str: the field default and no other, holding a channel string
SettingsFromToml(doc) ==
    IF Len(doc) = 1 /\ doc[1][1] = "default" /\ ChannelFromStr(doc[1][2]) # None
    THEN Some(Settings(The(ChannelFromStr(doc[1][2]))))
    ELSE None

\* documents a settings file can hold that no save wrote: cut short, with an
\* unknown channel, with an unknown field
BadDocs == { <<>>,
             << <<"default", <<"bogus">> >> >>,
             << <<"default", <<"stable">> >>, <<"extra", <<"stable">> >> >> }
SettingsDocs == {SettingsToToml(Settings(c)) : c \in Channels} \cup BadDocs

NoRes == [op |-> "none", arg |-> None, err |-> "ok"]
Res(op, arg, err) == [op |-> op, arg |-> arg, err |-> err]

\* std::fs::write(file, doc): on failure the file is as it was, or cut short
FsWrite(file, doc, fail) ==
    CASE fail = "write" -> [ok |-> FALSE, file |-> file]
      [] fail = "write_cut" -> [ok |-> FALSE, file |-> Some(<<>>)]
      [] OTHER -> [ok |-> TRUE, file |-> Some(doc)]

SaveSettings(settings, file, fail) == FsWrite(file, SettingsToToml(settings), fail)

\* init: the directories, then the settings file when there is none
\* a variant of init that writes the default settings over the file it finds
InitConfigMut(settings, file, fail) ==
    IF fail = "init_dir" THEN [err |-> "CannotCreateInitDir", file |-> file]
    ELSE LET w == SaveSettings(settings, file, fail)
         IN  [err |-> IF w.ok THEN "ok" ELSE "CannotSaveSettings",
              file |-> w.file]
InitConfig(settings, file, fail) ==
    IF fail = "init_dir" THEN [err |-> "CannotCreateInitDir", file |-> file]
    ELSE IF file = None
         THEN LET w == SaveSettings(settings, file, fail)
              IN  [err |-> IF w.ok THEN "ok" ELSE "CannotSaveSettings",
                   file |-> w.file]
         ELSE [err |-> "ok", file |-> file]

\* load_settings: read the file, parse it
LoadSettings(file, fail) ==
    IF fail = "read" \/ file = None
    THEN [err |-> "CannotOpenSettings", settings |-> None]
    ELSE LET parsed == SettingsFromToml(The(file))
         IN  IF parsed = None
             THEN [err |-> "CannotParseSettings", settings |-> None]
             ELSE [err |-> "ok", settings |-> parsed]

ConfigFails == {"none", "init_dir", "write", "write_cut", "read"}

\* JorupConfig::new: a process starts on the default settings, init, load_settings
ConfigNew ==
    /\ cfg = None
    /\ \E fail \in ConfigFails :
          LET i == InitConfig(DefaultSettings, settingsFile, fail)
              l == LoadSettings(i.file, fail)
          IN  /\ settingsFile' = i.file
              /\ IF i.err # "ok"
                 THEN cfg' = None /\ res' = Res("new", None, i.err)
                 ELSE cfg' = l.settings /\ res' = Res("new", None, l.err)
              /\ lastSet' = IF i.file = settingsFile THEN lastSet ELSE None
    /\ UNCHANGED <<jor, ws, channel, nodeVars>>

\* set_default_channel(new_default): the settings in memory, then the file
SetDefaultChannel ==
    /\ cfg # None
    /\ \E new_default \in Channels, fail \in {"none", "write", "write_cut"} :
          LET w == SaveSettings(Settings(new_default), settingsFile, fail)
          IN  /\ cfg' = Some(Settings(new_default))
              /\ settingsFile' = w.file
              /\ res' = Res("set_default_channel", None,
                            IF w.ok THEN "ok" ELSE "CannotSaveSettings")
              /\ lastSet' = IF w.ok THEN Some(new_default)
                            ELSE IF w.file = settingsFile THEN lastSet
                            ELSE None
    /\ UNCHANGED <<jor, ws, channel, nodeVars>>

\* the process ends
ExitJorup ==
    /\ cfg # None
    /\ cfg' = None
    /\ channel' = None
    /\ res' = NoRes
    /\ UNCHANGED <<settingsFile, lastSet, jor, ws, nodeVars>>

---------------------------------------------------------------------------
(* jorup: the channel index and the channel workspace *)

\* an Entry of the index: its channel and its genesis block hash
Entry(ch, hash) == [channel |-> ch, genesis |-> hash]
Entries == {Entry(ch, h) : ch \in LibChannels, h \in Hashes}

\* the indexes: at most MaxEntries entries, keyed by channel
Indexes ==
    UNION {[D -> Hashes] :
             D \in {E \in SUBSET LibChannels : Cardinality(E) <= MaxEntries}}
EmptyIndex == [ch \in {} |-> 1]

RECURSIVE KeysInOrder(_)
KeysInOrder(keys) ==
    IF keys = {} THEN <<>>
    ELSE LET first == CHOOSE k \in keys :
                         \A o \in keys : o = k \/ ChannelBefore(k, o)
         IN  <<first>> \o KeysInOrder(keys \ {first})

\* jor.entries().values(): the entries in the order of their keys
Values(j) ==
    LET keys == KeysInOrder(DOMAIN j)
    IN  [i \in 1..Len(keys) |-> Entry(keys[i], j[keys[i]])]

\* PartialChannelDesc: a channel name and a date, each set or not
PartialDescs == [channel : {None} \cup {Some(n) : n \in Names},
                 date : {None} \cup {Some(d) : d \in Dates}]

\* PartialChannelDesc::matches: an unset field matches anything
DescMatches(desc, ch) ==
    /\ desc.channel = None \/ desc.channel = Some(ch.channel)
    /\ desc.date = None \/ desc.date = Some(ch.date)

SeqNext(q) == IF q = <<>> THEN None ELSE Some(q[1])
SeqLast(q) == IF q = <<>> THEN None ELSE Some(q[Len(q)])

\* .filter(|entry| channel_entered.matches(entry.channel())).last()
\* a variant that takes the first of the matching entries, not the last
MatchingEntryMut(j, desc) ==
    LET Test(e) == DescMatches(desc, e.channel)
    IN  SeqNext(SelectSeq(Values(j), Test))
MatchingEntry(j, desc) ==
    LET Test(e) == DescMatches(desc, e.channel)
    IN  SeqLast(SelectSeq(Values(j), Test))

\* current_entry: .filter(|entry| default.is_nightly() == entry.is_nightly()).next()
CurrentEntry(settings, j) ==
    LET Test(e) == IsNightly(settings.default) = LibIsNightly(e.channel)
    IN  SeqNext(SelectSeq(Values(j), Test))

\* the workspace directory of an entry: channel/<channel>/<date>
PathOf(ch) == <<"channel", ch.channel, ch.date>>
Paths == {PathOf(ch) : ch \in LibChannels}

\* a workspace path holds nothing, a directory, or a directory with the file
\* genesis.block.hash (its content: <<hash>>, or <<>> when cut short)
NoDir == [dir |-> FALSE, genesis |-> None]
NoWorkspaces == [p \in Paths |-> NoDir]

\* Channel::new: create_dir_all of the path, then the Channel
ChannelNew(entry, version) ==
    LET path == PathOf(entry.channel)
    IN  \/ /\ channel' = None
           /\ ws' = ws
           /\ res' = Res("load", version.desc, "CannotCreateDir")
        \/ /\ channel' = Some([entry |-> entry, version |-> version,
                               path |-> path])
           /\ ws' = [ws EXCEPT ![path].dir = TRUE]
           /\ res' = Res("load", version.desc, "ok")

\* load_jor: the index, or no index when the file cannot be read or parsed
LoadJor == {None, Some(jor)}

\* Channel::load(cfg, args): by the CHANNEL argument, or by the default; a
\* command loads its channel once, on the configuration run_main has just built,
\* and an error of the load ends the command
ChannelLoad ==
    /\ cfg # None
    /\ channel = None
    /\ res.op = "new"
    /\ \E arg \in {None} \cup {Some(d) : d \in PartialDescs}, loaded \in LoadJor :
          IF loaded = None
          THEN /\ res' = Res("load", arg, "NoJorfile")
               /\ UNCHANGED <<channel, ws>>
          ELSE LET entry == IF arg # None
                            THEN MatchingEntry(The(loaded), The(arg))
                            ELSE CurrentEntry(The(cfg), The(loaded))
                   version == [default |-> IF arg # None THEN None
                                           ELSE Some(The(cfg).default),
                               desc |-> arg]
               IN  IF entry # None
                   THEN ChannelNew(The(entry), version)
                   ELSE /\ res' = Res("load", arg, "NoEntry")
                        /\ UNCHANGED <<channel, ws>>
    /\ UNCHANGED <<settingsFile, cfg, lastSet, jor, nodeVars>>

\* a process holding the workspace of some entry of some index
ChannelOpen ==
    /\ channel = None
    /\ \E entry \in Entries :
          ChannelNew(entry, [default |-> Some(Stable), desc |-> None])
    /\ UNCHANGED <<settingsFile, cfg, lastSet, jor, nodeVars>>

ChannelClose ==
    /\ channel # None
    /\ channel' = None
    /\ res' = NoRes
    /\ UNCHANGED <<settingsFile, cfg, lastSet, jor, ws, nodeVars>>

\* write_all_to(path, content): nothing when the file is there, else fs::write
\* a variant that writes even when the file is there
WriteAllToMut(file, content, fail) == FsWrite(file, content, fail)
WriteAllTo(file, content, fail) ==
    IF file # None THEN [ok |-> TRUE, file |-> file]
    ELSE FsWrite(file, content, fail)

\* prepare, install_block0_hash: the entry's hash into genesis.block.hash
Prepare ==
    /\ channel # None
    /\ \E fail \in {"none", "write", "write_cut"} :
          LET c == The(channel)
              w == WriteAllTo(ws[c.path].genesis, <<c.entry.genesis>>, fail)
          IN  /\ ws' = [ws EXCEPT ![c.path].genesis = w.file]
              /\ res' = Res("prepare", None,
                            IF w.ok THEN "ok" ELSE "CannotWriteGenesis")
    /\ UNCHANGED <<settingsFile, cfg, lastSet, jor, channel, nodeVars>>

---------------------------------------------------------------------------
(* The node release manager: initial state and next-state relation *)

JorupIdle ==
    /\ settingsFile = None
    /\ cfg = None
    /\ lastSet = None
    /\ jor = EmptyIndex
    /\ ws = NoWorkspaces
    /\ channel = None
    /\ res = NoRes

NodeIdle ==
    /\ releases = {}
    /\ assets = {}
    /\ partial = {}
    /\ opened = {}
    /\ dflt = None
    /\ feed = {}
    /\ call = NoCall

Init ==
    /\ releases = {}
    /\ assets = {}
    /\ partial = {}
    /\ opened = {}
    /\ dflt = None
    /\ feed \in SUBSET Versions
    /\ call = NoCall
    /\ JorupIdle

Next == RunInstall \/ RunRemove \/ RunList \/ Exit

Spec == Init /\ [][Next]_vars

---------------------------------------------------------------------------
(* jorup as state machines: the settings, the channel resolution, the      *)
(* workspace preparation                                                   *)

InitSettings ==
    /\ NodeIdle
    /\ settingsFile \in {None} \cup {Some(d) : d \in SettingsDocs}
    /\ cfg = None
    /\ lastSet = None
    /\ jor = EmptyIndex
    /\ ws = NoWorkspaces
    /\ channel = None
    /\ res = NoRes

NextSettings == ConfigNew \/ SetDefaultChannel \/ ExitJorup

SpecSettings == InitSettings /\ [][NextSettings]_vars

InitChannel ==
    /\ NodeIdle
    /\ settingsFile \in {None} \cup {Some(d) : d \in SettingsDocs}
    /\ cfg = None
    /\ lastSet = None
    /\ jor \in Indexes
    /\ ws = NoWorkspaces
    /\ channel = None
    /\ res = NoRes

NextChannel == ConfigNew \/ ChannelLoad \/ ExitJorup

SpecChannel == InitChannel /\ [][NextChannel]_vars

InitPrepare ==
    /\ NodeIdle
    /\ JorupIdle

NextPrepare == ChannelOpen \/ Prepare \/ ChannelClose

SpecPrepare == InitPrepare /\ [][NextPrepare]_vars

---------------------------------------------------------------------------
(* Properties of the node release manager *)

InstallStep == call.op = "none" /\ call'.op = "install"
RemoveStep == call.op = "none" /\ call'.op = "remove"

DiskUnchanged == UNCHANGED <<releases, assets, partial, opened, dflt>>

\* the requirement an install request asks for, when it names one
Requested(c) ==
    IF c.version # None /\ c.blockchain # None THEN None
    ELSE IF c.version # None THEN Some(Exact(The(c.version)))
    ELSE IF c.blockchain = None THEN Some(Latest)
    ELSE BlockchainLoad(The(c.blockchain), "none")

SatisfiedBy(c, installed) ==
    Requested(c) # None /\ ReleaseLoad(installed, The(Requested(c))) # None

OfflineInstallFails ==
    [][(InstallStep /\ call'.offline) =>
          /\ call'.chain = <<"Offline">>
          /\ call'.did = {}
          /\ DiskUnchanged]_vars

OfflineInstallWitness ==
    /\ call.op = "install"
    /\ call.offline
    /\ call.chain = <<"Offline">>
    /\ call.blockchain = None
    /\ call.version # None
    /\ ~SatisfiedBy(call, releases)
    /\ releases # {}

\* C4, as stated: every install naming a version and a blockchain fails with
\* MustNotSpecifyBlockchainAndVersion before any access.
ConflictAlwaysReported ==
    [][(InstallStep /\ call'.version # None /\ call'.blockchain # None) =>
          /\ call'.chain = <<"MustNotSpecifyBlockchainAndVersion">>
          /\ call'.did = {}
          /\ DiskUnchanged]_vars

\* C4, amended: every install naming a version and a blockchain fails before
\* any network access, index load or disk change; the error is
\* MustNotSpecifyBlockchainAndVersion, or Error::Offline when the offline flag
\* is set, which is checked first.
ConflictFailsBeforeAccess ==
    [][(InstallStep /\ call'.version # None /\ call'.blockchain # None) =>
          /\ call'.chain = IF call'.offline
                           THEN <<"Offline">>
                           ELSE <<"MustNotSpecifyBlockchainAndVersion">>
          /\ call'.did = {}
          /\ DiskUnchanged]_vars

ConflictWitness ==
    /\ call.op = "install"
    /\ call.version # None
    /\ call.blockchain # None
    /\ ~call.offline
    /\ call.chain = <<"MustNotSpecifyBlockchainAndVersion">>
    /\ call.version \subseteq releases

\* C5: remove of a version with no release directory fails with ReleaseLoad
\* caused by NoCompatibleReleaseInstalled, never reaches remove_dir_all and
\* leaves the disk as it was.
RemoveMissingFails ==
    [][(RemoveStep /\ The(call'.version) \notin releases) =>
          /\ call'.chain = <<"ReleaseLoad", "NoCompatibleReleaseInstalled">>
          /\ "remove_dir_all" \notin call'.did
          /\ DiskUnchanged]_vars

RemoveMissingWitness ==
    /\ call.op = "remove"
    /\ call.version = Some(<<2, 0, 0>>)
    /\ call.chain = <<"ReleaseLoad", "NoCompatibleReleaseInstalled">>
    /\ releases = {}

\* C7: an install with neither version nor blockchain that gets to a release
\* has queried the remote feed and works on the maximum version of the feed,
\* which it has registered; from an empty inventory and the feed
\* {1.0.0, 1.2.0} the inventory ends as {1.2.0}.
LatestInstallsFeedMaximum ==
    [][(/\ InstallStep
        /\ call'.version = None
        /\ call'.blockchain = None
        /\ call'.release # None) =>
          /\ "feed" \in call'.did
          /\ feed # {}
          /\ call'.release = Some(MaxVersion(feed))
          /\ releases' = releases \cup {MaxVersion(feed)}
          /\ (releases = {} /\ feed = {<<1, 0, 0>>, <<1, 2, 0>>})
                => releases' = {<<1, 2, 0>>}]_vars

LatestInstallWitness ==
    /\ call.op = "install"
    /\ call.version = None
    /\ call.blockchain = None
    /\ call.chain = <<>>
    /\ feed = {<<1, 0, 0>>, <<1, 2, 0>>}
    /\ releases = {<<1, 2, 0>>}
    /\ assets = {<<1, 2, 0>>}
    /\ opened = {<<1, 2, 0>>}

\* C10, as stated: an install that returns an error leaves the disk as it was.
FailedInstallChangesNothing ==
    [][(InstallStep /\ call'.chain # <<>>) => DiskUnchanged]_vars

\* the errors install returns before it registers a release
EarlyErrors == {"Offline", "MustNotSpecifyBlockchainAndVersion",
                "NoValidBlockchain", "DownloaderCreate", "GitHub"}

\* C10, amended: an install that returns an error removes and alters nothing
\* that was on disk: every release directory, complete asset and unpacked
\* release is still there and the default is the same.  It leaves the disk
\* exactly as it was when it fails before registering a release; a later
\* failure can leave behind the directory it registered, an asset file,
\* complete or not, and the unpacked files, of the release it worked on only.
FailedInstallKeepsExisting ==
    [][(InstallStep /\ call'.chain # <<>>) =>
          /\ releases \subseteq releases'
          /\ assets \subseteq assets'
          /\ opened \subseteq opened'
          /\ partial \subseteq partial'
          /\ dflt' = dflt
          /\ (releases' \ releases) \subseteq call'.release
          /\ (assets' \ assets) \subseteq call'.release
          /\ (partial' \ partial) \subseteq call'.release
          /\ (opened' \ opened) \subseteq call'.release
          /\ (Head(call'.chain) \in EarlyErrors \/ call'.release = None)
                => DiskUnchanged]_vars

FailedInstallWitness ==
    /\ call.op = "install"
    /\ call.chain = <<"ReleaseLoad", "github::Error">>
    /\ call.release # None
    /\ call.release \subseteq releases
    /\ ~(call.release \subseteq (assets \cup partial))

---------------------------------------------------------------------------
(* Properties of jorup *)

PrepareStep == channel # None /\ res'.op = "prepare"
NewStep == cfg = None /\ res'.op = "new"
LoadStep == cfg # None /\ channel = None /\ res'.op = "load"

\* C1: once a workspace's genesis.block.hash exists no step changes its
\* content, and a prepare on that workspace, whatever the genesis hash of its
\* entry, returns success and writes nothing.
GenesisWrittenOnce ==
    [][/\ \A p \in Paths :
             ws[p].genesis # None => ws'[p].genesis = ws[p].genesis
       /\ (PrepareStep /\ ws[The(channel).path].genesis # None) =>
             /\ res'.err = "ok"
             /\ ws' = ws]_vars

GenesisKeptWitness ==
    /\ channel # None
    /\ res = Res("prepare", None, "ok")
    /\ \E h \in Hashes :
          /\ h # The(channel).entry.genesis
          /\ ws[The(channel).path].genesis = Some(<<h>>)

\* C6: a process that starts after a successful set_default_channel(c) comes
\* up, unless a directory or the file cannot be reached, with the default
\* channel c; a starting process never rewrites a settings file that exists;
\* every channel parses back from its string form.
SettingsPersist ==
    [][/\ \A c \in Channels : ChannelFromStr(ChannelToString(c)) = Some(c)
       /\ (NewStep /\ settingsFile # None) => settingsFile' = settingsFile
       /\ (NewStep /\ lastSet # None) =>
             /\ settingsFile = Some(SettingsToToml([default |-> The(lastSet)]))
             /\ res'.err \in {"ok", "CannotCreateInitDir", "CannotOpenSettings"}
             /\ res'.err = "ok" => cfg' = Some([default |-> The(lastSet)])]_vars

SettingsPersistWitness ==
    /\ res = Res("new", None, "ok")
    /\ lastSet # None
    /\ The(lastSet).kind = "Specific"
    /\ cfg = Some([default |-> The(lastSet)])

\* C8: with a channel descriptor, the entry loaded is the last, in the order
\* of the index, of the entries whose channel equals the descriptor in every
\* field the descriptor sets; with no such entry the load fails for want of an
\* entry, holds no channel and creates no directory.
ExplicitResolution ==
    [][(LoadStep /\ res'.arg # None) =>
          LET desc == The(res'.arg)
              matching ==
                {k \in DOMAIN jor :
                   /\ desc.channel \in {None, Some(k.channel)}
                   /\ desc.date \in {None, Some(k.date)}}
          IN  /\ res'.err = "ok" =>
                    /\ channel' # None
                    /\ The(channel').entry.channel \in matching
                    /\ The(channel').entry.genesis
                          = jor[The(channel').entry.channel]
                    /\ \A k \in matching :
                          \/ k = The(channel').entry.channel
                          \/ ChannelBefore(k, The(channel').entry.channel)
                    /\ ws'[PathOf(The(channel').entry.channel)].dir
              /\ res'.err = "NoEntry" <=> (matching = {} /\ res'.err # "NoJorfile")
              /\ matching = {} => channel' = None /\ ws' = ws]_vars

ExplicitResolutionWitness ==
    /\ res.op = "load"
    /\ res.err = "ok"
    /\ res.arg = Some([channel |-> Some("mainnet"), date |-> None])
    /\ Cardinality({k \in DOMAIN jor : k.channel = "mainnet"}) = 2
    /\ The(channel).entry.channel
          = [channel |-> "mainnet", date |-> "2021-02-01"]

\* C9: with no descriptor, the entry loaded is nightly exactly when the
\* default channel is (Nightly, or a Specific channel that is nightly, whatever
\* its date), and the load fails for want of an entry exactly when the index
\* holds no entry of that nightly-ness.
DefaultResolution ==
    [][(LoadStep /\ res'.arg = None) =>
          LET d == The(cfg).default
              nightly == \/ d.kind = "Nightly"
                         \/ d.kind = "Specific" /\ The(d.channel).channel = "nightly"
              same == {k \in DOMAIN jor : (k.channel = "nightly") = nightly}
          IN  /\ res'.err = "ok" =>
                    /\ channel' # None
                    /\ The(channel').entry.channel \in same
                    /\ The(channel').entry.genesis
                          = jor[The(channel').entry.channel]
              /\ res'.err # "NoJorfile" => (res'.err = "NoEntry" <=> same = {})
              /\ same = {} => channel' = None /\ ws' = ws]_vars

DefaultResolutionWitness ==
    /\ res = Res("load", None, "ok")
    /\ cfg = Some([default |->
                     Specific([channel |-> "nightly", date |-> "2021-02-01"])])
    /\ [channel |-> "nightly", date |-> "2021-02-01"] \in DOMAIN jor
    /\ The(channel).entry.channel
          = [channel |-> "nightly", date |-> "2021-01-01"]

\* C11, as stated: a release whose directory is registered and whose asset is
\* not yet unpacked is what an interrupted install leaves; the next install
\* that resolves to it, with no collaborator failing, fetches the asset unless
\* the complete asset is there, returns no error and ends with the directory
\* registered, the complete asset present and the asset unpacked.
InterruptedInstallRecovers ==
    [][(/\ InstallStep
        /\ ~call'.faults
        /\ call'.release # None
        /\ call'.release \subseteq releases
        /\ call'.release \cap opened = {}) =>
          /\ call'.release \cap assets = {} => "download" \in call'.did
          /\ call'.chain = <<>>
          /\ call'.release \subseteq releases'
          /\ call'.release \subseteq assets'
          /\ call'.release \subseteq opened']_vars

\* C12: of every command run, the exit status is 0 exactly when the command
\* returned no error; on an error the status is not 0 and standard error holds
\* one line per error of the chain, in the order of the chain: the outermost
\* error on the first line, then each source behind " |-> ", the innermost
\* last; a run without error prints nothing there.
ErrorReported ==
    call.op # "none" =>
        /\ call.status = 0 <=> call.chain = <<>>
        /\ call.chain # <<>> => call.status # 0
        /\ Len(call.stderr) = Len(call.chain)
        /\ \A i \in 1..Len(call.chain) :
              call.stderr[i] = IF i = 1 THEN <<call.chain[1]>>
                               ELSE <<" |-> ", call.chain[i]>>

ErrorReportedWitness ==
    /\ call.op = "install"
    /\ call.version = Some(<<1, 0, 0>>)
    /\ call.chain = <<"CannotUpdate", "download::Error", "io::Error">>
    /\ call.stderr = <<<<"CannotUpdate">>, <<" |-> ", "download::Error">>,
                       <<" |-> ", "io::Error">>>>
    /\ call.status = 1

\* C13: remove(v) of a version that has a release directory works on the
\* release of exactly v, whatever other versions are installed, and calls
\* remove_dir_all on its directory; the directories, assets and unpacked files
\* of every other version and the default are as before; when remove returns
\* no error, which is when remove_dir_all does not fail, the directory of v and
\* everything in it (asset file, complete or not, unpacked files) is gone, so v
\* is not in the inventory any more.
RemoveInstalled ==
    [][(RemoveStep /\ The(call'.version) \in releases) =>
          LET v == The(call'.version)
          IN  /\ call'.release = Some(v)
              /\ "remove_dir_all" \in call'.did
              /\ releases' \ {v} = releases \ {v}
              /\ assets' \ {v} = assets \ {v}
              /\ partial' \ {v} = partial \ {v}
              /\ opened' \ {v} = opened \ {v}
              /\ dflt' = dflt
              /\ call'.chain = <<>> <=> ~call'.faults
              /\ call'.chain = <<>> =>
                    v \notin (releases' \cup assets' \cup partial' \cup opened')
              /\ call'.chain # <<>> =>
                    call'.chain = <<"RemoveRelease", "io::Error">>]_vars

RemoveInstalledWitness ==
    /\ call.op = "remove"
    /\ call.version = Some(<<1, 0, 0>>)
    /\ call.chain = <<>>
    /\ "remove_dir_all" \in call.did
    /\ releases = {<<1, 2, 0>>}
    /\ opened = {<<1, 2, 0>>}
    /\ dflt = Some(<<1, 0, 0>>)

=============================================================================
